---- MODULE Spec2Model ----
(***************************************************************************)
(* ESYA QR ticketing service (src/app.py): the ticket store, the register, *)
(* validate and health handlers, and the requests in flight against them.  *)
(*                                                                         *)
(* Each HTTP request is a slot of `req` with a position (pc).  A handler   *)
(* is cut into steps at its calls on shared state: the store's get, set    *)
(* and update, and the mail relay.  Code between two such calls touches    *)
(* only the request's locals and belongs to the step that precedes it.     *)
(*                                                                         *)
(* `boot` is the module-level start-up block of app.py, and `client` is    *)
(* the smoke-test client (src/test_system.py) run against a deployment.    *)
(***************************************************************************)
EXTENDS Integers, Sequences, FiniteSets, TLC

(* ---- bounds ---- *)
MaxReqs == 2      \* HTTP requests handled over a run
MaxIds == 2       \* ticket ids in use over a run
MaxClock == 1     \* the server clock reads 0..MaxClock

(* ---- program constants ---- *)
ZeroId == 0       \* "00000000-0000-0000-0000-000000000000"

Reqs == 1..MaxReqs
IDs == 1..MaxIds
NoId == ZeroId - 1               \* a request that has no ticket id
None == <<>>                     \* Python None in a stored field
Some(t) == <<t>>

VARIABLES
    boot,        \* the start-up block of app.py:24-44: position, environment
    client,      \* the smoke-test client: position, requests sent, results
    db,          \* the store handle of app.py:40/44: TRUE when initialised
    smtp_env,    \* the sender variables that are set (and not empty)
    tickets,     \* the collection 'tickets': document id -> fields
    issued,      \* the ids uuid4 has returned
    known,       \* the ids that left the service (in an email or a 201 body)
    now,         \* the server clock
    req          \* the requests: locals, position, response

vars == <<boot, client, db, smtp_env, tickets, issued, known, now, req>>

(* ---- strings: sequences of one-character strings ---- *)
IsSpace(c) == c = " "

RECURSIVE lstrip(_)
lstrip(s) == IF s # <<>> /\ IsSpace(Head(s)) THEN lstrip(Tail(s)) ELSE s

RECURSIVE rstrip(_)
rstrip(s) ==
    IF s # <<>> /\ IsSpace(s[Len(s)]) THEN rstrip(SubSeq(s, 1, Len(s) - 1)) ELSE s

\* mutant: the fields are used as posted
strip_none(s) == s

\* str.strip()
strip(s) == rstrip(lstrip(s))

\* dict.get(key, default)
get(data, key, default) == IF key \in DOMAIN data THEN data[key] ELSE default

(* ---- the JSON objects posted to /register: each of name and email is
   absent or a string ---- *)
NameInputs == { <<>>, <<" ", " ">>, <<" ", "T", " ">>, <<"U">> }
EmailInputs == { <<>>, <<" ">>, <<"t", "@", "x", " ">>, <<" ", "i", "e">> }

AllBodies ==
    { b \in UNION { [keys -> NameInputs \cup EmailInputs] :
                       keys \in SUBSET {"name", "email"} } :
        /\ "name" \in DOMAIN b => b["name"] \in NameInputs
        /\ "email" \in DOMAIN b => b["email"] \in EmailInputs }

\* the bodies of the runs that mix registrations with validations: the empty
\* object and one complete submission
EmptyBody == << >>
Bodies == { EmptyBody, [ name |-> <<" ", "T", " ">>, email |-> <<"t", "@", "x", " ">> ] }

\* a submission whose name opens a template tag
TemplateBodies == { [ name |-> <<"{", "%">>, email |-> <<"t", "@", "x">> ] }

(* ---- register: the input check of app.py:463 ---- *)
InputRejected(name, email) == name = <<>> \/ email = <<>>

\* mutant: the store write is skipped
AfterQr_skip(handle) == "email"

\* mutant: the store write is tried without a handle
AfterQr_always(handle) == "store"

\* `if db:` of app.py:473: the store write is next when there is a store
AfterQr(handle) == IF handle THEN "store" ELSE "email"

\* generate_qr_code, app.py:48: the id in ".../validate/{ticket_id}"
validation_url(ticket_id) == ticket_id

\* mutant: the store write is made again
AfterSet_retry == "store"

\* app.py:483-486: the email send follows the store write
AfterSet == "email"

\* mutant: an id that is already in use can come back
uuid4_reuse(used) == IDs

\* mutant: every draw gives the same id
uuid4_same(used) == {1}

(* ---- uuid.uuid4(): a random 122-bit id, never one handed out before.
   Ids are opaque to the program, so the model names them in order of issue. *)
uuid4(used) == { id \in IDs \ used : \A other \in IDs \ used : id <= other }

\* the document register writes (app.py:474-481)
ticket_data(ticket_id, name, email, t) ==
    [ ticket_id  |-> ticket_id,
      name       |-> name,
      email      |-> email,
      scanned    |-> FALSE,
      created_at |-> t,
      scanned_at |-> None ]

\* mutant: the write is lost
DocSet_lost(store, id, data) == store

\* DocumentReference.set(data): create or replace the whole document
DocSet(store, id, data) ==
    [ i \in DOMAIN store \cup {id} |-> IF i = id THEN data ELSE store[i] ]

\* mutant: the update forgets the timestamp
ScanFields_noStamp(doc, t) == [ doc EXCEPT !.scanned = TRUE ]

\* the fields validate_ticket writes (app.py:541-544)
ScanFields(doc, t) == [ doc EXCEPT !.scanned = TRUE, !.scanned_at = Some(t) ]

\* DocumentSnapshot.exists of app.py:516
Exists(store, id) == id \in DOMAIN store

\* mutant: the update is conditional on scanned being false
CanUpdate_ifUnscanned(store, id) == id \in DOMAIN store /\ ~store[id].scanned

\* DocumentReference.update() asks only that the document exists, whatever
\* its fields hold; it raises NotFound otherwise
CanUpdate(store, id) == id \in DOMAIN store

\* mutant: the write replaces the document (set() for update()), so the
\* fields it does not name are lost
DocUpdate_replace(store, id, t) ==
    [ store EXCEPT ![id] = [ ScanFields(store[id], t)
                             EXCEPT !.name = <<>>, !.email = <<>> ] ]

\* DocumentReference.update(fields): merge into the existing document
DocUpdate(store, id, t) == [ store EXCEPT ![id] = ScanFields(store[id], t) ]

\* mutant: the scanned flag is not looked at
AlreadyScanned_never(doc) == FALSE

\* ticket_data.get('scanned', False) of app.py:526
AlreadyScanned(doc) == doc.scanned

(* ---- render_template_string over an f-string (app.py:527-538, 546-564) ----
   The name and the email of the document are pasted into the template source
   before Jinja compiles it.  A "{%" opens a statement; no statement fits in
   the few characters of a modelled field, so the compilation raises
   TemplateSyntaxError. *)
TemplateSyntaxError(text) ==
    \E i \in 1..(Len(text) - 1) : text[i] = "{" /\ text[i + 1] = "%"

\* the page that shows the fields of `doc` can be rendered
Renders(doc) ==
    ~TemplateSyntaxError(doc.name) /\ ~TemplateSyntaxError(doc.email)

(* ---- send_email_with_qr (app.py:69-163) ----
   `outcome` is how far the relay lets the call get.  The result says whether
   the function returned True, whether the message was handed to the relay,
   and how many connections it opened and closed. *)
SmtpOutcomes == { "ok", "connect_fails", "starttls_fails", "login_fails",
                  "send_fails", "quit_fails" }

\* os.getenv('SENDER_EMAIL') and os.getenv('SENDER_PASSWORD') of app.py:75-76
SenderVars == { "SENDER_EMAIL", "SENDER_PASSWORD" }

\* mutant: only the sender address is looked at
Misconfigured_addressOnly(env) == "SENDER_EMAIL" \notin env

\* `not all([sender_email, sender_password])` of app.py:78
Misconfigured(env) == \E v \in SenderVars : v \notin env

send_email_with_qr(env, outcome) ==
    IF Misconfigured(env)
    THEN [ result |-> FALSE, delivered |-> FALSE, opened |-> 0, closed |-> 0 ]
    ELSE [ result    |-> outcome = "ok",
           delivered |-> outcome \in {"ok", "quit_fails"},
           opened    |-> IF outcome = "connect_fails" THEN 0 ELSE 1,
           closed    |-> IF outcome = "ok" THEN 1 ELSE 0 ]

(* ---- requests ---- *)
IdleReq ==
    [ kind        |-> "none",
      pc          |-> "idle",
      data        |-> EmptyBody, \* request.get_json(), until the handler has read it
      name        |-> <<>>,
      email       |-> <<>>,
      ticket_id   |-> NoId,
      qr_id       |-> NoId,     \* the id in the validation URL of the QR code
      mailed_id   |-> NoId,     \* the id handed to send_email_with_qr
      doc         |-> <<>>,     \* ticket_doc.to_dict() as read, when it exists
      start       |-> 0,        \* clock when a validate request arrived
      after_valid |-> FALSE,    \* it arrived after a "Valid Ticket" answer for its id
      raised      |-> "",       \* the call that raised, if one did
      email_sent  |-> None,     \* what send_email_with_qr returned
      opened      |-> 0,        \* SMTP connections the request opened
      closed      |-> 0,        \* SMTP connections the request closed
      status      |-> 0,
      reply       |-> "",
      body_id     |-> NoId,     \* ticket_id of a JSON response
      log         |-> <<>> ]    \* the calls the request made, in order

\* the answers of the handlers: status and the text the claims look for
RequiredError == [ status |-> 400, reply |-> "Name and email are required" ]
RegistrationFailed_201 == [ status |-> 201, reply |-> "Registration failed" ]  \* mutant
RegistrationFailed == [ status |-> 500, reply |-> "Registration failed" ]
EmailError ==
    [ status |-> 500, reply |-> "Failed to send email. Please try again." ]
Registered ==
    [ status |-> 201,
      reply  |-> "Registration successful! Check your email for the QR code." ]
DatabaseErrorPage == [ status |-> 500, reply |-> "Database Error" ]
InvalidTicketPage_200 == [ status |-> 200, reply |-> "Invalid Ticket" ]  \* mutant
InvalidTicketPage == [ status |-> 404, reply |-> "Invalid Ticket" ]
AlreadyUsedPage == [ status |-> 200, reply |-> "Already Used" ]
ValidTicketPage == [ status |-> 200, reply |-> "Valid Ticket" ]
ValidationErrorPage_200 == [ status |-> 200, reply |-> "Validation Error" ]  \* mutant
ValidationErrorPage == [ status |-> 500, reply |-> "Validation Error" ]
\* mutant: the service reports a connection whatever the handle is
HealthBody_connected(handle) ==
    [ status |-> 200, reply |-> "firebase_connected: true" ]

\* jsonify of app.py:578-582 (the timestamp field is left out)
HealthBody(handle) ==
    [ status |-> 200,
      reply  |-> IF handle THEN "firebase_connected: true"
                           ELSE "firebase_connected: false" ]

Respond(q, answer) ==
    [ q EXCEPT !.pc = "done", !.status = answer.status, !.reply = answer.reply ]

\* requests arrive in slot order
CanStart(r) ==
    /\ req[r].pc = "idle"
    /\ \A s \in Reqs : s < r => req[s].pc # "idle"

(* ---- the start-up block (app.py:24-44) ---- *)
\* the environment variables the credential dictionary is built from
FirebaseVars ==
    { "FIREBASE_PROJECT_ID", "FIREBASE_PRIVATE_KEY_ID", "FIREBASE_PRIVATE_KEY",
      "FIREBASE_CLIENT_EMAIL", "FIREBASE_CLIENT_ID", "FIREBASE_CLIENT_CERT_URL" }

\* what the calls of the block raise: None.replace (AttributeError), a
\* certificate or an app the library refuses (ValueError), credentials the
\* client cannot use (GoogleAuthError); all derive from Exception
Exceptions == { "AttributeError", "ValueError", "GoogleAuthError" }

\* mutant: the handler is written for ValueError alone
Caught_ValueError(exc) == exc = "ValueError"

\* `except Exception as e:` of app.py:42
Caught(exc) == exc \in Exceptions

\* the block before its first statement, in an environment that sets `env`
Booting(env) == [ pc |-> "dict", env |-> env, raised |-> "" ]

\* the block as it ends when every variable is set: with a handle, or without
\* one after the library raised
Booted(handle) ==
    [ pc     |-> "running",
      env    |-> FirebaseVars,
      raised |-> IF handle THEN "" ELSE "ValueError" ]

(* ---- the smoke-test client (test_system.py) ----
   The deployment under test answers as it likes: a response is a status and
   the one text the checks look for in its body, or no response at all
   (requests.exceptions.RequestException). *)
ClientStatuses == { 200, 201, 400, 404, 500 }
ClientTexts ==
    { "Valid Ticket", "Already Used", "Invalid Ticket", "ESYA",   \* pages
      "{}", "{ticket_id}", "{ticket_id: ''}", "[]" }              \* JSON
Responses ==
    [ error : {FALSE}, status : ClientStatuses, text : ClientTexts ]
    \cup { [ error |-> TRUE, status |-> 0, text |-> "" ] }

\* response.json() parses these; on any other body it raises JSONDecodeError,
\* which is a RequestException in some releases of requests and not in others
IsJson(text) == text \in { "{}", "{ticket_id}", "{ticket_id: ''}", "[]" }
\* data.get exists on a JSON object only
IsObject(text) == text \in { "{}", "{ticket_id}", "{ticket_id: ''}" }
\* data.get('ticket_id')
TicketIdOf(text) ==
    IF text = "{ticket_id}" THEN Some("uuid")
    ELSE IF text = "{ticket_id: ''}" THEN Some("")
    ELSE None

\* how a test function ends
Returns(value) == [ raised |-> "", value |-> value ]
Raises(exc) == [ raised |-> exc, value |-> None ]

\* test_system.py:31-51
test_health_check(resp, decode_caught) ==
    IF resp.error THEN Returns(FALSE)
    ELSE IF resp.status # 200 THEN Returns(FALSE)
    ELSE IF ~IsJson(resp.text)
         THEN IF decode_caught THEN Returns(FALSE) ELSE Raises("JSONDecodeError")
    ELSE IF ~IsObject(resp.text) THEN Raises("AttributeError")
    ELSE Returns(TRUE)

\* test_system.py:169-187
test_frontend(resp) ==
    Returns(~resp.error /\ resp.status = 200 /\ resp.text = "ESYA")

\* test_system.py:86-91
test_cases == << "empty name", "empty email", "invalid email", "empty data" >>

\* the check of one test case of test_invalid_registration (test_system.py:104)
Rejected(resp) == ~resp.error /\ resp.status = 400

\* test_system.py:53-80; ticket_id[:8] raises on None
test_registration(resp, decode_caught) ==
    IF resp.error THEN Returns(None)
    ELSE IF resp.status # 201 THEN Returns(None)
    ELSE IF ~IsJson(resp.text)
         THEN IF decode_caught THEN Returns(None) ELSE Raises("JSONDecodeError")
    ELSE IF ~IsObject(resp.text) THEN Raises("AttributeError")
    ELSE IF TicketIdOf(resp.text) = None THEN Raises("TypeError")
    ELSE Returns(TicketIdOf(resp.text))

\* the checks of test_validation (test_system.py:128, 138) and of
\* test_invalid_validation (test_system.py:158)
Shows(resp, status, text) ==
    ~resp.error /\ resp.status = status /\ resp.text = text

\* mutant: validation is tried without a ticket id
NoTicket_never(ticket_id) == FALSE

\* `if ticket_id:` of test_system.py:207 and `if not ticket_id:` of line 120
NoTicket(ticket_id) == ticket_id = None \/ ticket_id = Some("")

\* mutant: the exit codes are swapped
ExitCode_swapped(success) == IF success THEN 1 ELSE 0

\* sys.exit(0 if success else 1) of test_system.py:239
ExitCode(success) == IF success THEN 0 ELSE 1

\* the client before its first request
IdleClient ==
    [ pc         |-> "health",
      sent       |-> <<>>,       \* the requests made and whether their check passed
      tests      |-> <<>>,       \* run_all_tests' list of (name, result)
      cases      |-> <<>>,       \* test cases the loop has still to post
      all_passed |-> TRUE,
      ticket_id  |-> None,       \* what test_registration returned
      ended      |-> "",         \* how the process ended
      exit       |-> None ]      \* its exit code

\* The store outlives the process: at the start it is empty, or holds a ticket
\* an earlier run registered and emailed (`old` is the ids of such tickets,
\* which uuid4 will not hand out again).  No request has arrived yet.
Store(old) ==
    /\ tickets = [ id \in old |-> ticket_data(id, <<"T">>, <<"t", "@", "x">>, 0) ]
    /\ issued = old
    /\ known = old
    /\ now = 0
    /\ req = [ r \in Reqs |-> IdleReq ]

\* The process has started (app.py:24-44) with or without a store handle, and
\* with or without the sender's variables in its environment; the client is
\* not run.
Start(old) ==
    /\ db \in BOOLEAN
    /\ boot = Booted(db)
    /\ smtp_env \in SUBSET SenderVars
    /\ client = IdleClient
    /\ Store(old)

Init == \E n \in 0..1 : Start(1..n)

\* the start on an empty store, with the sender configured or not at all
InitEmpty == Start({}) /\ smtp_env \in { {}, SenderVars }

\* the server clock advances
Tick ==
    /\ now < MaxClock
    /\ now' = now + 1
    /\ UNCHANGED <<boot, client, db, smtp_env, tickets, issued, known, req>>

(* ---- POST /register (app.py:455-498) ---- *)

\* a client posts a JSON object
PostRegister(r, data) ==
    /\ CanStart(r)
    /\ req' = [ req EXCEPT ![r] =
                  [ req[r] EXCEPT !.kind = "register", !.pc = "recv", !.data = data ] ]
    /\ UNCHANGED <<boot, client, db, smtp_env, tickets, issued, known, now>>

\* app.py:459-470 and the test of db at 473: parse, trim, check, draw the id,
\* build the QR code
RegisterBegin(r, qr_ok) ==
    /\ req[r].kind = "register"
    /\ req[r].pc = "recv"
    /\ LET data  == req[r].data
           name  == strip(get(data, "name", <<>>))
           email == strip(get(data, "email", <<>>))
           q0    == [ req[r] EXCEPT !.data = EmptyBody ]
       IN  IF InputRejected(name, email)
           THEN /\ req' = [ req EXCEPT ![r] =
                              Respond(q0, RequiredError) ]
                /\ UNCHANGED issued
           ELSE \E id \in uuid4(issued) :
                  LET q1 == [ q0 EXCEPT !.name = name, !.email = email,
                                        !.ticket_id = id, !.log = <<"qr">>,
                                        !.qr_id = validation_url(id) ]
                  IN  /\ issued' = issued \cup {id}
                      /\ req' = [ req EXCEPT ![r] =
                                    IF ~qr_ok
                                    THEN Respond([ q1 EXCEPT !.raised = "qr" ],
                                                 RegistrationFailed)
                                    ELSE [ q1 EXCEPT !.pc = AfterQr(db) ] ]
    /\ UNCHANGED <<boot, client, db, smtp_env, tickets, known, now>>

\* app.py:474-483: write the ticket; a raising set() leaves the store as it was
RegisterStore(r, ok) ==
    /\ req[r].kind = "register"
    /\ req[r].pc = "store"
    /\ LET q == [ req[r] EXCEPT !.log = Append(@, "set") ]
       IN  IF ok
           THEN /\ tickets' = DocSet(tickets, q.ticket_id,
                                ticket_data(q.ticket_id, q.name, q.email, now))
                /\ req' = [ req EXCEPT ![r] = [ q EXCEPT !.pc = AfterSet ] ]
           ELSE /\ req' = [ req EXCEPT ![r] =
                              Respond([ q EXCEPT !.raised = "set" ], RegistrationFailed) ]
                /\ UNCHANGED tickets
    /\ UNCHANGED <<boot, client, db, smtp_env, issued, known, now>>

\* app.py:486-494: send the email and answer
RegisterEmail(r, outcome) ==
    /\ req[r].kind = "register"
    /\ req[r].pc = "email"
    /\ LET sent == send_email_with_qr(smtp_env, outcome)
           q    == [ req[r] EXCEPT !.log = Append(@, "email"),
                                   !.email_sent = Some(sent.result),
                                   !.opened = sent.opened,
                                   !.closed = sent.closed,
                                   !.mailed_id = req[r].ticket_id ]
       IN  /\ known' = IF sent.delivered THEN known \cup {q.ticket_id} ELSE known
           /\ req' = [ req EXCEPT ![r] =
                         IF ~sent.result
                         THEN Respond(q, EmailError)
                         ELSE [ Respond(q, Registered)
                                EXCEPT !.body_id = q.ticket_id ] ]
    /\ UNCHANGED <<boot, client, db, smtp_env, tickets, issued, now>>

(* ---- GET /validate/<ticket_id> (app.py:500-573) ---- *)

\* the ids a client can put in the path: a ticket id is 122 random bits, so a
\* client names a ticket only once its id has left the service; any other
\* path (here the zero id) names no ticket
PathIds == known \cup {ZeroId}

\* some request for `id` has been answered "Valid Ticket"
ValidAnswered(id) ==
    \E s \in Reqs : /\ req[s].kind = "validate" /\ req[s].pc = "done"
                    /\ req[s].ticket_id = id /\ req[s].reply = ValidTicketPage.reply

\* mutant: the handle is not looked at
Disabled_never(handle) == FALSE

\* `if not db` of app.py:504: the store handle is None
Disabled(handle) == ~handle

\* app.py:504-510
ValidateBegin(r, id) ==
    /\ CanStart(r)
    /\ id \in PathIds
    /\ LET q == [ req[r] EXCEPT !.kind = "validate", !.ticket_id = id, !.start = now,
                                !.after_valid = ValidAnswered(id) ]
       IN  req' = [ req EXCEPT ![r] =
                      IF Disabled(db) THEN Respond(q, DatabaseErrorPage)
                             ELSE [ q EXCEPT !.pc = "get" ] ]
    /\ UNCHANGED <<boot, client, db, smtp_env, tickets, issued, known, now>>

\* app.py:513-538: read the document, answer 404 or Already Used (a page that
\* cannot be rendered raises), or go on
ValidateGet(r, ok) ==
    /\ req[r].kind = "validate"
    /\ req[r].pc = "get"
    /\ LET q  == [ req[r] EXCEPT !.log = Append(@, "get") ]
           id == q.ticket_id
       IN  req' = [ req EXCEPT ![r] =
                      IF ~ok THEN Respond([ q EXCEPT !.raised = "get" ],
                                          ValidationErrorPage)
                      ELSE IF ~Exists(tickets, id)
                           THEN Respond(q, InvalidTicketPage)
                      ELSE IF AlreadyScanned(tickets[id])
                           THEN IF Renders(tickets[id])
                                THEN Respond([ q EXCEPT !.doc = <<tickets[id]>> ],
                                             AlreadyUsedPage)
                                ELSE Respond([ q EXCEPT !.doc = <<tickets[id]>>,
                                                        !.raised = "render" ],
                                             ValidationErrorPage)
                      ELSE [ q EXCEPT !.doc = <<tickets[id]>>, !.pc = "update" ] ]
    /\ UNCHANGED <<boot, client, db, smtp_env, tickets, issued, known, now>>

\* app.py:541-564: mark the ticket and answer with the page that shows the
\* fields read; update() raises on a missing document, and a raising update()
\* leaves the store as it was; a page that cannot be rendered raises after
\* the update
ValidateUpdate(r, ok) ==
    /\ req[r].kind = "validate"
    /\ req[r].pc = "update"
    /\ LET q  == [ req[r] EXCEPT !.log = Append(@, "update") ]
           id == q.ticket_id
       IN  IF ok /\ CanUpdate(tickets, id)
           THEN /\ tickets' = DocUpdate(tickets, id, now)
                /\ req' = [ req EXCEPT ![r] =
                                   IF Renders(q.doc[1])
                                   THEN Respond(q, ValidTicketPage)
                                   ELSE Respond([ q EXCEPT !.raised = "render" ],
                                                ValidationErrorPage) ]
           ELSE /\ req' = [ req EXCEPT ![r] =
                              Respond([ q EXCEPT !.raised = "update" ],
                                      ValidationErrorPage) ]
                /\ UNCHANGED tickets
    /\ UNCHANGED <<boot, client, db, smtp_env, issued, known, now>>

(* ---- GET /health (app.py:575-582) ---- *)
Health(r) ==
    /\ CanStart(r)
    /\ req' = [ req EXCEPT ![r] =
                  Respond([ req[r] EXCEPT !.kind = "health" ], HealthBody(db)) ]
    /\ UNCHANGED <<boot, client, db, smtp_env, tickets, issued, known, now>>

Next ==
    \/ Tick
    \/ \E r \in Reqs, data \in Bodies : PostRegister(r, data)
    \/ \E r \in Reqs, qr_ok \in BOOLEAN : RegisterBegin(r, qr_ok)
    \/ \E r \in Reqs, ok \in BOOLEAN : RegisterStore(r, ok)
    \/ \E r \in Reqs, outcome \in SmtpOutcomes : RegisterEmail(r, outcome)
    \/ \E r \in Reqs, id \in IDs \cup {ZeroId} : ValidateBegin(r, id)
    \/ \E r \in Reqs, ok \in BOOLEAN : ValidateGet(r, ok)
    \/ \E r \in Reqs, ok \in BOOLEAN : ValidateUpdate(r, ok)
    \/ \E r \in Reqs : Health(r)

Spec == Init /\ [][Next]_vars

\* registrations alone, over every body of AllBodies
NextRegister ==
    \/ \E r \in Reqs, data \in AllBodies : PostRegister(r, data)
    \/ \E r \in Reqs, qr_ok \in BOOLEAN : RegisterBegin(r, qr_ok)
    \/ \E r \in Reqs, ok \in BOOLEAN : RegisterStore(r, ok)
    \/ \E r \in Reqs, outcome \in SmtpOutcomes : RegisterEmail(r, outcome)

SpecRegister == InitEmpty /\ [][NextRegister]_vars

\* the service with its store and its sender configured, on an empty store
InitRender ==
    /\ db = TRUE
    /\ boot = Booted(db)
    /\ smtp_env = SenderVars
    /\ client = IdleClient
    /\ Store({})

\* registrations whose fields open a template tag, and validations
NextRender ==
    \/ Tick
    \/ \E r \in Reqs, data \in TemplateBodies : PostRegister(r, data)
    \/ \E r \in Reqs, qr_ok \in BOOLEAN : RegisterBegin(r, qr_ok)
    \/ \E r \in Reqs, ok \in BOOLEAN : RegisterStore(r, ok)
    \/ \E r \in Reqs, outcome \in SmtpOutcomes : RegisterEmail(r, outcome)
    \/ \E r \in Reqs, id \in IDs \cup {ZeroId} : ValidateBegin(r, id)
    \/ \E r \in Reqs, ok \in BOOLEAN : ValidateGet(r, ok)
    \/ \E r \in Reqs, ok \in BOOLEAN : ValidateUpdate(r, ok)

SpecRender == InitRender /\ [][NextRender]_vars

(* ---- the start-up block, statement by statement (app.py:24-44) ---- *)

\* a call of the block raises: the handler binds db to None and the module
\* goes on to serve; an exception the handler does not catch ends the process
Except(exc) ==
    IF Caught(exc)
    THEN /\ boot' = [ boot EXCEPT !.pc = "running", !.raised = exc ]
         /\ db' = FALSE
    ELSE /\ boot' = [ boot EXCEPT !.pc = "crashed", !.raised = exc ]
         /\ UNCHANGED db

\* app.py:27-38: the dictionary; os.getenv gives None for an unset variable,
\* and None has no replace()
BuildDict ==
    /\ boot.pc = "dict"
    /\ IF "FIREBASE_PRIVATE_KEY" \in boot.env
       THEN boot' = [ boot EXCEPT !.pc = "certificate" ] /\ UNCHANGED db
       ELSE Except("AttributeError")
    /\ UNCHANGED <<client, smtp_env, tickets, issued, known, now, req>>

\* app.py:27: credentials.Certificate takes the dictionary or raises
Certificate(ok) ==
    /\ boot.pc = "certificate"
    /\ IF ok
       THEN boot' = [ boot EXCEPT !.pc = "initialize_app" ] /\ UNCHANGED db
       ELSE Except("ValueError")
    /\ UNCHANGED <<client, smtp_env, tickets, issued, known, now, req>>

\* app.py:39: firebase_admin.initialize_app
InitializeApp(ok) ==
    /\ boot.pc = "initialize_app"
    /\ IF ok
       THEN boot' = [ boot EXCEPT !.pc = "client" ] /\ UNCHANGED db
       ELSE Except("ValueError")
    /\ UNCHANGED <<client, smtp_env, tickets, issued, known, now, req>>

\* app.py:40: db = firestore.client()
FirestoreClient(ok) ==
    /\ boot.pc = "client"
    /\ IF ok
       THEN boot' = [ boot EXCEPT !.pc = "running" ] /\ db' = TRUE
       ELSE Except("GoogleAuthError")
    /\ UNCHANGED <<client, smtp_env, tickets, issued, known, now, req>>

StartUp ==
    \/ BuildDict
    \/ \E ok \in BOOLEAN : Certificate(ok)
    \/ \E ok \in BOOLEAN : InitializeApp(ok)
    \/ \E ok \in BOOLEAN : FirestoreClient(ok)

\* the process before the block, in any environment; db is not bound yet
InitStart ==
    /\ boot \in { Booting(env) : env \in SUBSET FirebaseVars }
    /\ db = FALSE
    /\ smtp_env = SenderVars
    /\ client = IdleClient
    /\ Store({})

\* the running service answers requests (here: health checks)
Serve == boot.pc = "running" /\ \E r \in Reqs : Health(r)

NextStart == StartUp \/ Serve

\* the interpreter runs the module's statements one after the other: each call
\* of the block returns or raises
SpecStart == InitStart /\ [][NextStart]_vars /\ WF_vars(StartUp)

(* ---- the smoke-test client, request by request (test_system.py) ---- *)

\* tests.append((name, result))
Record(c, name, result) == [ c EXCEPT !.tests = Append(@, <<name, result>>) ]

\* a request went out; `passed` is whether its check passed
Send(c, request, passed) ==
    [ c EXCEPT !.sent = Append(@, [ request |-> request, passed |-> passed ]) ]

\* test_system.py:243-245: an exception leaves run_all_tests
Unexpected(c, exc) ==
    [ c EXCEPT !.pc = "exited", !.ended = exc, !.exit = Some(1) ]

\* test_system.py:198
TestHealth(resp, decode_caught) ==
    /\ client.pc = "health"
    /\ LET out == test_health_check(resp, decode_caught)
           c   == Send(client, "GET /health", out.raised = "" /\ out.value)
       IN  client' = IF out.raised # ""
                     THEN Unexpected(c, out.raised)
                     ELSE [ Record(c, "Health Check", out.value)
                            EXCEPT !.pc = "frontend" ]
    /\ UNCHANGED <<boot, db, smtp_env, tickets, issued, known, now, req>>

\* test_system.py:199, and the loop of test_invalid_registration is set up
TestFrontend(resp) ==
    /\ client.pc = "frontend"
    /\ LET out == test_frontend(resp)
           c   == Send(client, "GET /", out.value)
       IN  client' = [ Record(c, "Frontend", out.value)
                       EXCEPT !.pc = "invalid_registration",
                              !.cases = test_cases, !.all_passed = TRUE ]
    /\ UNCHANGED <<boot, db, smtp_env, tickets, issued, known, now, req>>

\* test_system.py:200: one test case of the loop; the result is recorded
\* after the last one
TestInvalidRegistration(resp) ==
    /\ client.pc = "invalid_registration"
    /\ LET ok   == Rejected(resp)
           c    == [ Send(client, Head(client.cases), ok)
                     EXCEPT !.cases = Tail(@), !.all_passed = @ /\ ok ]
       IN  client' = IF c.cases # <<>> THEN c
                     ELSE [ Record(c, "Invalid Registration", c.all_passed)
                            EXCEPT !.pc = "registration" ]
    /\ UNCHANGED <<boot, db, smtp_env, tickets, issued, known, now, req>>

\* test_system.py:204-211: the registration, its result, and either the way
\* to the validation or the result of the validation that is skipped
TestRegistration(resp, decode_caught) ==
    /\ client.pc = "registration"
    /\ LET out == test_registration(resp, decode_caught)
           c   == Send(client, "POST /register", out.value # None)
           c1  == Record([ c EXCEPT !.ticket_id = out.value ],
                         "Registration", out.value # None)
       IN  client' = IF out.raised # "" THEN Unexpected(c, out.raised)
                     ELSE IF NoTicket(out.value)
                          THEN [ Record(c1, "Validation", FALSE)
                                 EXCEPT !.pc = "invalid_validation" ]
                     ELSE [ c1 EXCEPT !.pc = "validation" ]
    /\ UNCHANGED <<boot, db, smtp_env, tickets, issued, known, now, req>>

\* test_system.py:126-132: the first validation
TestValidation(resp) ==
    /\ client.pc = "validation"
    /\ LET ok == Shows(resp, 200, "Valid Ticket")
           c  == Send(client, "GET /validate/{ticket_id}", ok)
       IN  client' = IF ok THEN [ c EXCEPT !.pc = "second_validation" ]
                     ELSE [ Record(c, "Validation", FALSE)
                            EXCEPT !.pc = "invalid_validation" ]
    /\ UNCHANGED <<boot, db, smtp_env, tickets, issued, known, now, req>>

\* test_system.py:134-147: the second validation
TestSecondValidation(resp) ==
    /\ client.pc = "second_validation"
    /\ LET ok == Shows(resp, 200, "Already Used")
           c  == Send(client, "GET /validate/{ticket_id} again", ok)
       IN  client' = [ Record(c, "Validation", ok)
                       EXCEPT !.pc = "invalid_validation" ]
    /\ UNCHANGED <<boot, db, smtp_env, tickets, issued, known, now, req>>

\* test_system.py:213
TestInvalidValidation(resp) ==
    /\ client.pc = "invalid_validation"
    /\ LET ok == Shows(resp, 404, "Invalid Ticket")
           c  == Send(client, "GET /validate/00000000-0000-0000-0000-000000000000", ok)
       IN  client' = [ Record(c, "Invalid Validation", ok) EXCEPT !.pc = "summary" ]
    /\ UNCHANGED <<boot, db, smtp_env, tickets, issued, known, now, req>>

\* sum(1 for _, result in tests if result) of test_system.py:217
passed(tests) == Cardinality({ i \in 1..Len(tests) : tests[i][2] })

\* test_system.py:215-231 and 238-239
Summary ==
    /\ client.pc = "summary"
    /\ client' = [ client EXCEPT
                     !.pc = "exited", !.ended = "summary",
                     !.exit = Some(ExitCode(passed(client.tests) = Len(client.tests))) ]
    /\ UNCHANGED <<boot, db, smtp_env, tickets, issued, known, now, req>>

\* test_system.py:240-242: the user interrupts the run
Interrupt ==
    /\ client.pc # "exited"
    /\ client' = [ client EXCEPT !.pc = "exited", !.ended = "KeyboardInterrupt",
                                 !.exit = Some(1) ]
    /\ UNCHANGED <<boot, db, smtp_env, tickets, issued, known, now, req>>

\* the client runs against a deployment with a store
InitClient ==
    /\ db = TRUE
    /\ boot = Booted(db)
    /\ smtp_env = SenderVars
    /\ client = IdleClient
    /\ Store({})

NextClient ==
    \/ \E resp \in Responses, decode_caught \in BOOLEAN : TestHealth(resp, decode_caught)
    \/ \E resp \in Responses : TestFrontend(resp)
    \/ \E resp \in Responses : TestInvalidRegistration(resp)
    \/ \E resp \in Responses, decode_caught \in BOOLEAN :
          TestRegistration(resp, decode_caught)
    \/ \E resp \in Responses : TestValidation(resp)
    \/ \E resp \in Responses : TestSecondValidation(resp)
    \/ \E resp \in Responses : TestInvalidValidation(resp)
    \/ Summary
    \/ Interrupt

SpecClient == InitClient /\ [][NextClient]_vars

(***************************************************************************)
(* The claims.                                                             *)
(***************************************************************************)
\* the texts of the JSON answers of POST /register, as the spec gives them
SuccessText == "Registration successful! Check your email for the QR code."
EmailFailedText == "Failed to send email. Please try again."
RequiredText == "Name and email are required"

IsValidate(r) == req[r].kind = "validate"
IsRegister(r) == req[r].kind = "register"
Done(r) == req[r].pc = "done"
Answered(r, status, reply) ==
    Done(r) /\ req[r].status = status /\ req[r].reply = reply

\* C1: over every sequence of register and validate steps, overlapping ones
\* included, a ticket whose scanned is true stays in the store with scanned
\* true: scanned never goes back to false, so it goes from false to true at
\* most once.
C1_ScannedOnce ==
    [][ \A id \in DOMAIN tickets :
          tickets[id].scanned => (id \in DOMAIN tickets' /\ tickets'[id].scanned) ]_vars

\* a ticket was scanned and a registration wrote another ticket after that
C1_Witness ==
    \E id \in DOMAIN tickets, other \in DOMAIN tickets :
        /\ id # other
        /\ tickets[id].scanned
        /\ tickets[other].created_at > tickets[id].scanned_at[1]

\* C2: in every reachable state, every stored ticket has scanned_at set if
\* and only if its scanned is true.
C2_ScannedAtIffScanned ==
    \A id \in DOMAIN tickets : (tickets[id].scanned_at # None) <=> tickets[id].scanned

\* the store holds a scanned ticket with its timestamp and an unscanned one
C2_Witness ==
    \E a \in DOMAIN tickets, b \in DOMAIN tickets :
        /\ tickets[a].scanned /\ tickets[a].scanned_at # None
        /\ ~tickets[b].scanned /\ tickets[b].scanned_at = None

\* the store calls of request r did not raise
StoreWorked(r) == req[r].raised \notin {"get", "update"}

\* C3: with the store available (the handle is set and the request's store
\* calls do not raise), a validate request that finds its ticket in the store
\* with scanned false answers 200 "Valid Ticket", and from its answer on the
\* ticket has scanned true and a scanned_at no earlier than the request's
\* arrival.
C3_FirstValidation ==
    \A r \in Reqs :
        ( /\ IsValidate(r) /\ Done(r) /\ db /\ StoreWorked(r)
          /\ req[r].doc # <<>> /\ ~req[r].doc[1].scanned )
        => /\ Answered(r, 200, "Valid Ticket")
           /\ req[r].ticket_id \in DOMAIN tickets
           /\ tickets[req[r].ticket_id].scanned
           /\ tickets[req[r].ticket_id].scanned_at # None
           /\ tickets[req[r].ticket_id].scanned_at[1] >= req[r].start

\* a step of request r
Steps(r) == req'[r] # req[r]
\* the step in which request r answers
Answers(r) == req[r].pc # "done" /\ req'[r].pc = "done"
AnswersWith(r, status, reply) ==
    /\ Answers(r)
    /\ req'[r].status = status
    /\ req'[r].reply = reply

\* C4 as claimed: once a validate request has been answered "Valid Ticket",
\* every validate request for the same id that arrives afterwards is answered
\* 200 "Already Used" and leaves the stored ticket as it was.
C4_Original ==
    [][ \A r \in Reqs :
          (Steps(r) /\ req'[r].kind = "validate" /\ req'[r].after_valid)
          => /\ tickets' = tickets
             /\ Answers(r) => AnswersWith(r, 200, "Already Used") ]_vars

\* C4, amended: once a validate request has been answered "Valid Ticket",
\* every validate request for the same id that arrives afterwards writes
\* nothing to the store; it is answered 200 "Already Used", showing the
\* scanned_at it read, unless its store read raises, and then it is answered
\* 500 "Validation Error".
C4_AlreadyUsed ==
    [][ \A r \in Reqs :
          (Steps(r) /\ req'[r].kind = "validate" /\ req'[r].after_valid)
          => /\ tickets' = tickets
             /\ Answers(r) =>
                  \/ /\ req'[r].raised = ""
                     /\ AnswersWith(r, 200, "Already Used")
                     /\ req'[r].doc = <<tickets[req[r].ticket_id]>>
                     /\ req'[r].doc[1].scanned_at # None
                  \/ /\ req'[r].raised = "get"
                     /\ AnswersWith(r, 500, "Validation Error") ]_vars

\* a request that arrived after a "Valid Ticket" answer was answered
\* "Already Used", the ticket still carrying the timestamp it read
C4_Witness ==
    \E r \in Reqs :
        /\ IsValidate(r) /\ req[r].after_valid
        /\ Answered(r, 200, "Already Used")
        /\ tickets[req[r].ticket_id].scanned_at = req[r].doc[1].scanned_at

\* C5: with the store available (the handle is set and the store read does
\* not raise), a validate request for an id that has no ticket in the store
\* is answered 404 "Invalid Ticket" at its read, and none of its steps changes
\* the store.
C5_UnknownTicket ==
    [][ \A r \in Reqs :
          ( /\ Steps(r) /\ req'[r].kind = "validate" /\ db
            /\ req'[r].ticket_id \notin DOMAIN tickets
            /\ req'[r].raised = "" )
          => /\ tickets' = tickets
             /\ req[r].pc = "get" => AnswersWith(r, 404, "Invalid Ticket") ]_vars

\* a request for an id without a ticket was answered 404 while the store
\* held a ticket
C5_Witness ==
    \E r \in Reqs :
        /\ IsValidate(r) /\ Answered(r, 404, "Invalid Ticket")
        /\ req[r].ticket_id \notin DOMAIN tickets
        /\ tickets # << >>

\* the field is missing from the posted object, or empty once trimmed
Blank(data, key) ==
    key \notin DOMAIN data \/ \A i \in 1..Len(data[key]) : data[key][i] = " "

\* the step in which the register handler reads the posted object
Reads(r) == req[r].pc = "recv" /\ req'[r].pc # "recv"

\* C6: a POST /register whose name or email is missing or empty after
\* trimming, the empty object included, is answered 400 "Name and email are
\* required" before any id is drawn, ticket written or email attempted, and
\* the request does nothing after its answer.
C6_MissingInput ==
    [][ \A r \in Reqs :
          /\ ( Reads(r) /\ ( Blank(req[r].data, "name") \/ Blank(req[r].data, "email") ) )
             => /\ AnswersWith(r, 400, RequiredText)
                /\ req'[r].log = <<>>
                /\ req'[r].email_sent = None
                /\ tickets' = tickets /\ issued' = issued /\ known' = known
          /\ Done(r) => req'[r] = req[r] ]_vars

\* one submission was turned down with 400 and wrote nothing, another was
\* registered
C6_Witness ==
    \E r \in Reqs, s \in Reqs :
        /\ IsRegister(r) /\ Answered(r, 400, RequiredText)
        /\ req[r].log = <<>>
        /\ IsRegister(s) /\ Answered(s, 201, SuccessText)
        /\ Cardinality(DOMAIN tickets) <= 1

\* the request got past the input check with this name and email
Accepted(r) ==
    /\ req'[r].kind = "register"
    /\ IF req[r].pc = "recv"
       THEN ~Blank(req[r].data, "name") /\ ~Blank(req[r].data, "email")
       ELSE req[r].name # <<>> /\ req[r].email # <<>>

\* the ticket of request r is in the store as register wrote it
FreshTicket(r, store) ==
    /\ req'[r].body_id \in DOMAIN store
    /\ store[req'[r].body_id].ticket_id = req'[r].body_id
    /\ ~store[req'[r].body_id].scanned
    /\ store[req'[r].body_id].scanned_at = None

Malformed(email) == \A i \in 1..Len(email) : email[i] # "@"

\* C8: a POST /register with a non-empty name and a non-empty email that is
\* no address is turned down with 400 when the handler reads it.
C8_MalformedEmailRejected ==
    [][ \A r \in Reqs :
          ( /\ Reads(r)
            /\ ~Blank(req[r].data, "name") /\ ~Blank(req[r].data, "email")
            /\ Malformed(req[r].data["email"]) )
          => /\ Answers(r)
             /\ req'[r].status = 400 ]_vars

\* C9: when the email send of a register request fails, the request is
\* answered 500 EmailFailedText; with the store
\* available its ticket is in the store at the answer, scanned false, and the
\* store write came before the email attempt.
C9_EmailFailure ==
    [][ \A r \in Reqs :
          ( /\ req'[r].kind = "register" /\ Answers(r)
            /\ req'[r].email_sent = Some(FALSE) )
          => /\ AnswersWith(r, 500, EmailFailedText)
             /\ db => /\ req'[r].log = <<"qr", "set", "email">>
                      /\ req[r].ticket_id \in DOMAIN tickets
                      /\ req[r].ticket_id \in DOMAIN tickets'
                      /\ ~tickets'[req[r].ticket_id].scanned
             /\ ~db => req'[r].log = <<"qr", "email">> ]_vars

\* the email of a registration failed and its ticket is in the store
C9_Witness ==
    \E r \in Reqs :
        /\ IsRegister(r) /\ Answered(r, 500, EmailFailedText)
        /\ req[r].email_sent = Some(FALSE)
        /\ req[r].ticket_id \in DOMAIN tickets

\* request r completes its update and is answered "Valid Ticket"
ValidAnswer(r) == ValidateUpdate(r, TRUE) /\ AnswersWith(r, 200, "Valid Ticket")

\* C10: a validate request that has read scanned false can still be answered
\* "Valid Ticket", whatever other requests have done to the ticket since its
\* read: two requests for one unscanned ticket whose reads both precede the
\* updates both report success.
C10_NoGuardOnUpdate ==
    \A r \in Reqs :
        (IsValidate(r) /\ req[r].pc = "update") => ENABLED ValidAnswer(r)

\* double entry: two requests read the same ticket unscanned and both were
\* answered "Valid Ticket"
C10_Witness ==
    \E r \in Reqs, s \in Reqs :
        /\ r # s
        /\ IsValidate(r) /\ IsValidate(s)
        /\ req[r].ticket_id = req[s].ticket_id
        /\ Answered(r, 200, "Valid Ticket") /\ Answered(s, 200, "Valid Ticket")
        /\ ~req[r].doc[1].scanned /\ ~req[s].doc[1].scanned

\* C11: after its creation a ticket record is written once at most, by the
\* validate request that sets scanned and stamps scanned_at: a record that
\* carries a scanned_at is never written again, so the stamp keeps its value,
\* overlapping validate requests included.
C11_MutatedOnce ==
    [][ \A id \in DOMAIN tickets :
          tickets[id].scanned_at # None =>
              /\ id \in DOMAIN tickets'
              /\ tickets'[id] = tickets[id] ]_vars

\* C12: when the store failed to initialise, every GET /validate/{id}, whatever
\* the id, is answered in its first step with HTTP 500 and the "Database Error"
\* page, has made no store call, and the stored tickets are as they were.
C12_DatabaseError ==
    [][ \A r \in Reqs :
          (~db /\ Steps(r) /\ req'[r].kind = "validate")
          => /\ req[r].pc = "idle"
             /\ AnswersWith(r, 500, "Database Error")
             /\ req'[r].log = <<>>
             /\ tickets' = tickets ]_vars

\* without a store handle, a request for a ticket that is in the store and a
\* request for the zero id have both been answered "Database Error"
C12_Witness ==
    /\ ~db
    /\ \E r, s \in Reqs :
        /\ IsValidate(r) /\ Answered(r, 500, "Database Error")
        /\ req[r].ticket_id \in DOMAIN tickets
        /\ IsValidate(s) /\ Answered(s, 500, "Database Error")
        /\ req[s].ticket_id = ZeroId

\* C13 as claimed: without a store handle, every POST /register with non-empty
\* name and email whose email send does not fail is answered 201 with a
\* ticket_id after the email was sent, no ticket is in the store under that
\* id, and no validate request for that id is answered "Valid Ticket".
C13_Original ==
    [][ \A r \in Reqs :
          ( /\ ~db /\ Answers(r) /\ Accepted(r)
            /\ req'[r].email_sent # Some(FALSE) )
          => /\ AnswersWith(r, 201, SuccessText)
             /\ req'[r].email_sent = Some(TRUE)
             /\ req'[r].body_id \in IDs
             /\ req'[r].body_id \notin DOMAIN tickets'
             /\ \A s \in Reqs :
                  (IsValidate(s) /\ req[s].ticket_id = req'[r].body_id)
                  => req'[s].reply # "Valid Ticket" ]_vars

\* a validate request for the id of a registration answered 201 gets its answer
AnswersFor(s, r) ==
    /\ IsRegister(r) /\ Answered(r, 201, SuccessText)
    /\ Answers(s) /\ req'[s].kind = "validate"
    /\ req'[s].ticket_id = req[r].body_id

\* C13, amended: without a store handle, every POST /register with non-empty
\* name and email in which QR generation does not raise and the email send
\* succeeds is answered 201 with the ticket_id it drew, after the email left
\* for the relay; no store call was made and no ticket is in the store under
\* that id; and no validate request for that id is answered "Valid Ticket".
C13_Unpersisted ==
    [][ /\ \A r \in Reqs :
             ( /\ ~db /\ Answers(r) /\ Accepted(r)
               /\ req'[r].raised = "" /\ req'[r].email_sent = Some(TRUE) )
             => /\ AnswersWith(r, 201, SuccessText)
                /\ req'[r].body_id = req[r].ticket_id
                /\ req'[r].body_id \in IDs
                /\ req'[r].body_id \in known'
                /\ req'[r].log = <<"qr", "email">>
                /\ req'[r].body_id \notin DOMAIN tickets'
        /\ \A r, s \in Reqs :
             (~db /\ AnswersFor(s, r))
             => /\ req'[s].reply # "Valid Ticket"
                /\ req'[s].ticket_id \notin DOMAIN tickets' ]_vars

\* without a store handle a registration was answered 201 after its email was
\* sent, its ticket is not in the store, and a validate request for its id
\* was answered "Database Error"
C13_Witness ==
    /\ ~db
    /\ \E r, s \in Reqs :
        /\ IsRegister(r) /\ Answered(r, 201, SuccessText)
        /\ req[r].email_sent = Some(TRUE)
        /\ req[r].body_id \in known
        /\ req[r].body_id \notin DOMAIN tickets
        /\ IsValidate(s) /\ req[s].ticket_id = req[r].body_id
        /\ Answered(s, 500, "Database Error")

\* C14: GET /health can be served in every reachable state and is answered at
\* once with HTTP 200 and firebase_connected equal to the store handle of the
\* start; no step changes the handle, so all health calls of a run report the
\* same value; and a health call leaves the stored tickets as they were.
C14_Health ==
    /\ [](\A r \in Reqs : CanStart(r) => ENABLED Health(r))
    /\ [][ /\ db' = db
           /\ \A r \in Reqs :
                (Steps(r) /\ req'[r].kind = "health")
                => /\ req[r].pc = "idle"
                   /\ AnswersWith(r, 200, IF db THEN "firebase_connected: true"
                                               ELSE "firebase_connected: false")
                   /\ tickets' = tickets
           /\ \A r, s \in Reqs :
                (req'[r].kind = "health" /\ req'[s].kind = "health")
                => req'[r].reply = req'[s].reply ]_vars

\* a health call was answered 200 with firebase_connected true after a ticket
\* was scanned, and the ticket is still scanned
C14_Witness ==
    \E r, s \in Reqs :
        /\ req[r].kind = "health"
        /\ Answered(r, 200, "firebase_connected: true")
        /\ s < r
        /\ IsValidate(s) /\ Answered(s, 200, "Valid Ticket")
        /\ tickets[req[s].ticket_id].scanned

\* C15: the start-up block never ends the process: when the dictionary, the
\* certificate, the app or the client raises, the service is running without
\* a store handle; with FIREBASE_PRIVATE_KEY unset that is how every start
\* ends; and every start reaches the running state.
C15_DegradedStart ==
    /\ [](boot.pc # "crashed")
    /\ []((boot.pc = "running" /\ boot.raised # "") => ~db)
    /\ []((boot.pc = "running" /\ boot.raised = "") => db)
    /\ []((boot.pc # "dict" /\ "FIREBASE_PRIVATE_KEY" \notin boot.env)
            => (boot.pc = "running" /\ boot.raised = "AttributeError" /\ ~db))
    /\ <>(boot.pc = "running")

\* started without FIREBASE_PRIVATE_KEY, the service runs without a handle and
\* has answered a health check with firebase_connected false
C15_Witness ==
    /\ boot.pc = "running"
    /\ "FIREBASE_PRIVATE_KEY" \notin boot.env
    /\ boot.raised = "AttributeError"
    /\ ~db
    /\ \E r \in Reqs :
         req[r].kind = "health" /\ Answered(r, 200, "firebase_connected: false")

\* C16: a POST /register in which QR generation or the store write raises is
\* answered in that step with HTTP 500 and "Registration failed", and has
\* neither called the email notifier nor opened a connection to the relay;
\* an answered request takes no further step, so no email follows.
C16_RegistrationFailed ==
    [][ \A r \in Reqs :
          /\ ( /\ Answers(r) /\ req'[r].kind = "register"
               /\ req'[r].raised \in {"qr", "set"} )
             => /\ AnswersWith(r, 500, "Registration failed")
                /\ req'[r].email_sent = None
                /\ req'[r].opened = 0
                /\ \A i \in 1..Len(req'[r].log) : req'[r].log[i] # "email"
                /\ known' = known
          /\ req[r].pc = "done" => req'[r] = req[r] ]_vars

\* one registration whose QR generation raised and one whose store write
\* raised were answered "Registration failed"; neither ticket is in the store
C16_Witness ==
    \E r, s \in Reqs :
        /\ IsRegister(r) /\ req[r].raised = "qr"
        /\ Answered(r, 500, "Registration failed")
        /\ IsRegister(s) /\ req[s].raised = "set"
        /\ Answered(s, 500, "Registration failed")
        /\ req[r].ticket_id \notin DOMAIN tickets
        /\ req[s].ticket_id \notin DOMAIN tickets

\* C17: a GET /validate/{id} whose store read or store update raises is
\* answered in that step with HTTP 500 and the "Validation Error" page; when
\* it is the read that raised, the request has made no other store call and
\* the stored tickets are as they were.
C17_ValidationError ==
    [][ \A r \in Reqs :
          ( /\ Answers(r) /\ req'[r].kind = "validate"
            /\ req'[r].raised \in {"get", "update"} )
          => /\ AnswersWith(r, 500, "Validation Error")
             /\ req'[r].raised = "get"
                  => (req'[r].log = <<"get">> /\ tickets' = tickets) ]_vars

\* a validate request whose read raised and one whose update raised were both
\* answered "Validation Error" for a ticket that is in the store
C17_Witness ==
    \E r, s \in Reqs :
        /\ IsValidate(r) /\ req[r].raised = "get"
        /\ Answered(r, 500, "Validation Error")
        /\ IsValidate(s) /\ req[s].raised = "update"
        /\ Answered(s, 500, "Validation Error")
        /\ req[r].ticket_id \in DOMAIN tickets
        /\ req[s].ticket_id = req[r].ticket_id

\* C18: when SENDER_EMAIL or SENDER_PASSWORD is not set, the email step of a
\* registration ends with send_email_with_qr returning False, no SMTP
\* connection opened and no message handed to the relay.
C18_Misconfigured ==
    [][ \A r \in Reqs :
          ( /\ Steps(r) /\ req[r].pc = "email"
            /\ ("SENDER_EMAIL" \notin smtp_env \/ "SENDER_PASSWORD" \notin smtp_env) )
          => /\ req'[r].email_sent = Some(FALSE)
             /\ req'[r].opened = 0
             /\ req'[r].closed = 0
             /\ known' = known
             /\ AnswersWith(r, 500, EmailFailedText) ]_vars

\* with the address set and the credential missing, a registration reached the
\* email step and the notifier returned False without a connection
C18_Witness ==
    /\ smtp_env = {"SENDER_EMAIL"}
    /\ \E r \in Reqs :
        /\ IsRegister(r) /\ Done(r)
        /\ req[r].log = <<"qr", "set", "email">>
        /\ req[r].email_sent = Some(FALSE)
        /\ req[r].opened = 0
        /\ req[r].ticket_id \notin known

\* the client made this request
Sent(request) ==
    \E i \in 1..Len(client.sent) : client.sent[i].request = request
\* the client made this request and its check passed
SentOk(request) ==
    \E i \in 1..Len(client.sent) :
        client.sent[i].request = request /\ client.sent[i].passed
\* run_all_tests has recorded its six results, in order
SixRecorded ==
    /\ Len(client.tests) = 6
    /\ client.tests[1][1] = "Health Check"
    /\ client.tests[2][1] = "Frontend"
    /\ client.tests[3][1] = "Invalid Registration"
    /\ client.tests[4][1] = "Registration"
    /\ client.tests[5][1] = "Validation"
    /\ client.tests[6][1] = "Invalid Validation"
\* run_all_tests got to its summary
Summed == client.pc = "summary" \/ client.ended = "summary"
\* the requests that do not depend on a ticket id
SentIndependent ==
    /\ Sent("GET /health")
    /\ Sent("GET /")
    /\ Sent("empty name") /\ Sent("empty email")
    /\ Sent("invalid email") /\ Sent("empty data")
    /\ Sent("POST /register")
    /\ Sent("GET /validate/00000000-0000-0000-0000-000000000000")

AllSixPassed ==
    /\ Len(client.tests) = 6
    /\ \A i \in 1..6 : client.tests[i][2]

\* C20: the client's exit code is 0 exactly when run_all_tests got to the end
\* with six recorded passes; every other way the process ends (a failed
\* check, an interruption, an unexpected error) gives 1; a running client
\* has no exit code.
C20_ExitCode ==
    /\ client.pc = "exited" <=> client.exit # None
    /\ client.exit # None => client.exit \in { Some(0), Some(1) }
    /\ client.exit = Some(0) <=> (client.ended = "summary" /\ AllSixPassed)
    /\ client.ended = "summary" => Len(client.tests) = 6

\* the run ended with six passes and exit code 0
C20_Witness ==
    /\ client.pc = "exited"
    /\ client.ended = "summary"
    /\ AllSixPassed
    /\ SentOk("GET /validate/{ticket_id} again")
    /\ client.exit = Some(0)

\* the place of a call in the pipeline of register
Rank(call) == CASE call = "qr" -> 1 [] call = "set" -> 2 [] call = "email" -> 3

\* C21: a POST /register that passes the input check with a store handle and
\* in which no step raises has, at its answer, made exactly the calls QR
\* generation, store write, email send, once each and in that order; and the
\* calls of every register request are strictly in pipeline order, so none is
\* made twice: no store write and no email send is retried.
C21_OncePerRequest ==
    [][ \A r \in Reqs :
          /\ ( /\ Answers(r) /\ Accepted(r) /\ db
               /\ req'[r].raised = "" )
             => req'[r].log = <<"qr", "set", "email">>
          /\ req'[r].kind = "register"
             => \A i, j \in 1..Len(req'[r].log) :
                  i < j => Rank(req'[r].log[i]) < Rank(req'[r].log[j]) ]_vars

\* with a store handle, one registration was answered 201 and another was
\* answered 500 after its email send failed; each made its three calls once
C21_Witness ==
    /\ db
    /\ \E r, s \in Reqs :
        /\ IsRegister(r) /\ Answered(r, 201, SuccessText)
        /\ req[r].log = <<"qr", "set", "email">>
        /\ IsRegister(s) /\ Answered(s, 500, EmailFailedText)
        /\ req[s].email_sent = Some(FALSE)
        /\ req[s].log = <<"qr", "set", "email">>

\* C22: no step removes a ticket from the store or changes the ticket_id,
\* name, email or created_at of a stored ticket; and a step of a validate
\* request adds no ticket and leaves every ticket but the one named in its
\* path exactly as it was (so all it can write is scanned and scanned_at of
\* that one ticket).
C22_ValidateFrame ==
    [][ /\ \A id \in DOMAIN tickets :
             /\ id \in DOMAIN tickets'
             /\ tickets'[id].ticket_id = tickets[id].ticket_id
             /\ tickets'[id].name = tickets[id].name
             /\ tickets'[id].email = tickets[id].email
             /\ tickets'[id].created_at = tickets[id].created_at
        /\ \A r \in Reqs :
             (Steps(r) /\ req'[r].kind = "validate")
             => /\ DOMAIN tickets' = DOMAIN tickets
                /\ \A id \in DOMAIN tickets :
                     id # req'[r].ticket_id => tickets'[id] = tickets[id] ]_vars

\* a validate request has scanned one ticket, which still carries its id, name
\* and email, while another ticket is in the store unscanned
C22_Witness ==
    \E s \in Reqs, other \in DOMAIN tickets :
        /\ IsValidate(s) /\ Answered(s, 200, "Valid Ticket")
        /\ req[s].ticket_id \in DOMAIN tickets
        /\ tickets[req[s].ticket_id].scanned
        /\ tickets[req[s].ticket_id].ticket_id = req[s].ticket_id
        /\ tickets[req[s].ticket_id].name = <<"T">>
        /\ tickets[req[s].ticket_id].email = <<"t", "@", "x">>
        /\ other # req[s].ticket_id
        /\ ~tickets[other].scanned
        /\ tickets[other].scanned_at = None

\* no other validate request for the id of s has been answered without a
\* store failure: s is the first
FirstFor(s) ==
    \A t \in Reqs :
        (t # s /\ IsValidate(t) /\ req[t].ticket_id = req'[s].ticket_id)
        => ~(Done(t) /\ StoreWorked(t))

\* C23: a POST /register is answered 201 only after send_email_with_qr
\* returned True in that request, and the ticket_id of the 201 body is the id
\* the request drew, the id in the validation URL of its QR code, the id it
\* handed to the email and, with a store handle, the key and the ticket_id of
\* the stored ticket; and with the store available (handle set, no store call
\* raising) the first validate of that id to be answered after the 201 is
\* answered 200 "Valid Ticket" from a document that holds the trimmed name
\* and email of the registration.
C23_SuccessfulRegistration ==
    [][ /\ \A r \in Reqs :
             (Answers(r) /\ req'[r].kind = "register" /\ req'[r].status = 201)
             => /\ req'[r].email_sent = Some(TRUE)
                /\ req'[r].body_id \in IDs
                /\ req'[r].body_id = req[r].ticket_id
                /\ req'[r].qr_id = req'[r].body_id
                /\ req'[r].mailed_id = req'[r].body_id
                /\ db => /\ req'[r].body_id \in DOMAIN tickets'
                         /\ tickets'[req'[r].body_id].ticket_id = req'[r].body_id
        /\ \A r, s \in Reqs :
             ( /\ db /\ AnswersFor(s, r)
               /\ req'[s].raised \notin {"get", "update"}
               /\ FirstFor(s) )
             => /\ AnswersWith(s, 200, "Valid Ticket")
                /\ req'[s].doc # <<>>
                /\ req'[s].doc[1].name = req[r].name
                /\ req'[s].doc[1].email = req[r].email ]_vars

\* C24: whenever send_email_with_qr has returned, True or False, it has
\* closed every SMTP connection it opened in that call, also when STARTTLS,
\* the login or the send failed after the connection was made.
C24_ConnectionsClosed ==
    \A r \in Reqs :
        (IsRegister(r) /\ req[r].email_sent # None)
        => req[r].closed = req[r].opened

\* C25: however register requests interleave with each other and with other
\* requests, the store write of a register request that does not raise puts
\* exactly one ticket into the store, under an id that had no ticket, with
\* scanned false and the name and email of that request, and leaves every
\* existing ticket as it was; and no step of a register request removes or
\* alters an existing ticket, so a scanned ticket stays scanned.
C25_RegisterAddsOne ==
    [][ \A r \in Reqs :
          /\ ( /\ req[r].kind = "register" /\ req[r].pc = "store"
               /\ Steps(r) /\ req'[r].raised = "" )
             => /\ req[r].ticket_id \notin DOMAIN tickets
                /\ DOMAIN tickets' = DOMAIN tickets \cup {req[r].ticket_id}
                /\ tickets'[req[r].ticket_id].ticket_id = req[r].ticket_id
                /\ tickets'[req[r].ticket_id].name = req[r].name
                /\ tickets'[req[r].ticket_id].email = req[r].email
                /\ ~tickets'[req[r].ticket_id].scanned
                /\ \A s \in Reqs :
                     (s # r /\ req[s].kind = "register")
                     => req[s].ticket_id # req[r].ticket_id
          /\ (Steps(r) /\ req'[r].kind = "register")
             => \A id \in DOMAIN tickets :
                  /\ id \in DOMAIN tickets'
                  /\ tickets'[id] = tickets[id] ]_vars

\* two register requests overlap: both have written their ticket and neither
\* has been answered; the store holds the two tickets under different ids
C25_Witness ==
    \E r, s \in Reqs :
        /\ r # s
        /\ IsRegister(r) /\ req[r].pc = "email" /\ req[r].log = <<"qr", "set">>
        /\ IsRegister(s) /\ req[s].pc = "email" /\ req[s].log = <<"qr", "set">>
        /\ req[r].ticket_id # req[s].ticket_id
        /\ {req[r].ticket_id, req[s].ticket_id} \subseteq DOMAIN tickets
        /\ tickets[req[r].ticket_id].ticket_id = req[r].ticket_id
        /\ tickets[req[s].ticket_id].ticket_id = req[s].ticket_id

====
